---- MODULE Spec2Model ----
(***************************************************************************)
(* The API client (apiFetch, login, storeTokens, refreshToken, me) and the *)
(* login form (Login.onSubmit) of the AI Healthcare front-end, as a state  *)
(* machine over localStorage, the requests in flight and the form's state. *)
(***************************************************************************)
EXTENDS Integers, Sequences, FiniteSets, TLC

VARIABLES storage, form, timers, location, inflight, last, lastWrite, nsub

vars == <<storage, form, timers, location, inflight, last, lastWrite, nsub>>

(***************************************************************************)
(* Bounds of the model.                                                    *)
(***************************************************************************)
\* submissions of the login form in one run
MaxSubmits == 2
\* refreshToken() calls that may be in flight at once
MaxRefreshers == 2

(***************************************************************************)
(* JavaScript values.  V is a property value of a parsed body, a stored    *)
(* item or a header value; Entry is an element of a detail list; D is a    *)
(* whole parsed body (the value apiFetch calls data).                      *)
(***************************************************************************)
V(k, s, n, items) == [k |-> k, s |-> s, n |-> n, items |-> items]

Undef == V("undef", "", 0, <<>>)

Null == V("null", "", 0, <<>>)

Str(s) == V("str", s, 0, <<>>)

Num(n) == V("num", "", n, <<>>)

Arr(items) == V("arr", "", 0, items)

EntryObj(msg) == [k |-> "obj", msg |-> msg]

EntryNull == [k |-> "null", msg |-> Undef]

D(k, s, e, m, d, a, r) ==
  [k |-> k, s |-> s, error |-> e, message |-> m, detail |-> d,
   access_token |-> a, refresh_token |-> r]

UndefD == D("undef", "", Undef, Undef, Undef, Undef, Undef)

NullD == D("null", "", Undef, Undef, Undef, Undef, Undef)

StrD(s) == D("str", s, Undef, Undef, Undef, Undef, Undef)

Obj(e, m, d, a, r) == D("obj", "", e, m, d, a, r)

\* Boolean(v): the falsy values are undefined, null, "", 0
Truthy(v) ==
  CASE v.k = "undef" -> FALSE
    [] v.k = "null" -> FALSE
    [] v.k = "str" -> v.s # ""
    [] v.k = "num" -> v.n # 0
    [] OTHER -> TRUE

\* Boolean(data) for a whole body
TruthyD(d) ==
  CASE d.k = "undef" -> FALSE
    [] d.k = "null" -> FALSE
    [] d.k = "str" -> d.s # ""
    [] OTHER -> TRUE

\* a || b
Or(a, b) == IF Truthy(a) THEN a ELSE b

Digit == <<"0", "1", "2", "3", "4", "5", "6", "7", "8", "9">>

RECURSIVE IntToStr(_)
\* String(n) for a natural number
IntToStr(n) ==
  IF n < 10 THEN Digit[n + 1] ELSE IntToStr(n \div 10) \o Digit[(n % 10) + 1]

RECURSIVE JoinStr(_, _)
\* Array.prototype.join over strings
JoinStr(strs, sep) ==
  IF strs = <<>> THEN ""
  ELSE IF Len(strs) = 1 THEN strs[1]
  ELSE strs[1] \o sep \o JoinStr(Tail(strs), sep)

\* String(entry) of an element of a list
EntryToStr(e) == IF e.k = "obj" THEN "[object Object]" ELSE ""

\* String(v): the conversion new Error(msg), join and setItem apply
ToStr(v) ==
  CASE v.k = "undef" -> "undefined"
    [] v.k = "null" -> "null"
    [] v.k = "str" -> v.s
    [] v.k = "num" -> IntToStr(v.n)
    [] OTHER -> JoinStr([i \in 1..Len(v.items) |-> EntryToStr(v.items[i])], ",")

\* data.key: a property read; a string has none of these properties
Get(d, key) == IF d.k = "obj" THEN d[key] ELSE Undef

\* d?.msg
EntryMsg(e) == IF e.k = "obj" THEN e.msg ELSE Undef

(***************************************************************************)
(* Response bodies.  A body is text; the server's JSON bodies are the      *)
(* serializations of the values below.                                     *)
(***************************************************************************)
Quote(s) == "\"" \o s \o "\""

EntryJson(e) ==
  IF e.k = "null" THEN "null"
  ELSE IF e.msg.k = "undef" THEN "{}"
  ELSE "{" \o Quote("msg") \o ":" \o Quote(e.msg.s) \o "}"

ValueJson(v) ==
  CASE v.k = "null" -> "null"
    [] v.k = "str" -> Quote(v.s)
    [] v.k = "num" -> IntToStr(v.n)
    [] OTHER ->
       "[" \o JoinStr([i \in 1..Len(v.items) |-> EntryJson(v.items[i])], ",") \o "]"

Keys == <<"error", "message", "detail", "access_token", "refresh_token">>

\* JSON.stringify of a body value, as the server sends it
Serialize(d) ==
  CASE d.k = "null" -> "null"
    [] d.k = "str" -> Quote(d.s)
    [] OTHER ->
       LET present == SelectSeq(Keys, LAMBDA key : d[key].k # "undef")
       IN "{" \o JoinStr([i \in 1..Len(present) |->
                 Quote(present[i]) \o ":" \o ValueJson(d[present[i]])], ",") \o "}"

ErrorValues == {Undef, Null, Str(""), Str("E1"), Num(0), Arr(<<>>)}

MessageValues == {Undef, Str(""), Str("M1")}

DetailValues ==
  {Arr(<<>>), Arr(<<EntryObj(Undef)>>), Arr(<<EntryNull>>),
   Arr(<<EntryObj(Str("m1"))>>), Arr(<<EntryObj(Str(""))>>),
   Arr(<<EntryObj(Str("m1")), EntryObj(Str("m2"))>>),
   Arr(<<EntryObj(Undef), EntryObj(Str("m2"))>>), Str("bad")}

AccessValues == {Undef, Str(""), Str("T1"), Str("T2")}

RefreshValues == {Undef, Str(""), Str("R1"), Str("R2")}

\* the values a JSON body of the service may hold
JsonValues ==
  {NullD, StrD("ok")}
    \cup {Obj(e, m, Undef, Undef, Undef) : e \in ErrorValues, m \in MessageValues}
    \cup {Obj(e, m, d, Undef, Undef) :
            e \in {Undef, Str("E1")}, m \in {Undef, Str("M1")}, d \in DetailValues}
    \cup {Obj(Undef, Undef, Undef, a, r) : a \in AccessValues, r \in RefreshValues}

\* the body texts: empty, plain text, and the JSON texts
Bodies == {"", "Internal Server Error"} \cup {Serialize(d) : d \in JsonValues}

Statuses == {200, 204, 401, 422}

ContentTypes == {Null, Str("application/json"), Str("application/json; charset=utf-8"),
                 Str("text/plain")}

\* what fetch() settles with: a response, or a rejection (network failure)
Responses ==
  {[kind |-> "response", status |-> st, ctype |-> ct, body |-> b] :
     st \in Statuses, ct \in ContentTypes, b \in Bodies}

NetworkFailure == [kind |-> "neterr", status |-> 0, ctype |-> Null, body |-> ""]

NoResponse == [kind |-> "none", status |-> 0, ctype |-> Null, body |-> ""]

(***************************************************************************)
(* apiFetch: the part that runs once fetch() has settled.                  *)
(***************************************************************************)
\* the JSON texts of the model, each with the value it stands for
JsonTexts ==
  [t \in {Serialize(d) : d \in JsonValues} |->
     CHOOSE d \in JsonValues : Serialize(d) = t]

\* String.prototype.includes
Includes(s, sub) ==
  \E i \in 1..(Len(s) - Len(sub) + 1) : SubSeq(s, i, i + Len(sub) - 1) = sub

\* res.ok: the status is in the range 200-299
ResOk(r) == r.status >= 200 /\ r.status <= 299

\* res.json(): the value a JSON text stands for, or a SyntaxError
JsonParse(text) ==
  IF text \in DOMAIN JsonTexts THEN [ok |-> TRUE, v |-> JsonTexts[text]]
  ELSE [ok |-> FALSE, v |-> UndefD]

\* res.headers.get('content-type') || ''
ContentTypeOf(r) == Or(r.ctype, Str(""))

\* the body as apiFetch reads it: parsed JSON, or text wrapped as {message: text}
ReadBody(r) ==
  IF Includes(ContentTypeOf(r).s, "application/json")
    THEN JsonParse(r.body)
    ELSE [ok |-> TRUE,
          v |-> IF r.body # "" THEN Obj(Undef, Str(r.body), Undef, Undef, Undef)
                ELSE NullD]

Err(name, message, status, data) ==
  [name |-> name, message |-> message, status |-> status, data |-> data]

NoErr == Err("", "", Undef, UndefD)

Resolved(data) == [kind |-> "resolved", data |-> data, err |-> NoErr]

Rejected(err) == [kind |-> "rejected", data |-> UndefD, err |-> err]

NoOutcome == [kind |-> "none", data |-> UndefD, err |-> NoErr]

\* ErrorMsg with the two properties read in the other order
ErrorMsg_MessageFirst(data, status) ==
  LET inner == Or(Get(data, "message"), Get(data, "error"))
  IN IF TruthyD(data) /\ Truthy(inner) THEN inner
     ELSE Str("Request failed with " \o IntToStr(status))

\* (data && (data.error || data.message)) || `Request failed with ${res.status}`
ErrorMsg(data, status) ==
  LET inner == Or(Get(data, "error"), Get(data, "message"))
  IN IF TruthyD(data) /\ Truthy(inner) THEN inner
     ELSE Str("Request failed with " \o IntToStr(status))

\* how the promise apiFetch returns settles, given what fetch() settled with
ApiFetchSettle(r) ==
  IF r.kind = "neterr"
    THEN Rejected(Err("TypeError", "Failed to fetch", Undef, UndefD))
  ELSE LET body == ReadBody(r)
       IN IF ~body.ok
            THEN Rejected(Err("SyntaxError", "Unexpected token in JSON", Undef, UndefD))
          ELSE IF ~ResOk(r)
            THEN Rejected(Err("Error", ToStr(ErrorMsg(body.v, r.status)),
                              Num(r.status), body.v))
          ELSE Resolved(body.v)

(***************************************************************************)
(* apiFetch: the part that runs before fetch() is called.                  *)
(***************************************************************************)
\* {...a, ...b}: the keys of both, b's values winning
Spread(a, b) ==
  [k \in DOMAIN a \cup DOMAIN b |-> IF k \in DOMAIN b THEN b[k] ELSE a[k]]

NoHeaders == [k \in {} |-> ""]

\* localStorage.getItem('access_token') || null
getStoredAccessToken(st) == Or(st.access_token, Null)

authHeaders(st) ==
  LET token == getStoredAccessToken(st)
  IN IF Truthy(token) THEN [k \in {"Authorization"} |-> "Bearer " \o token.s]
     ELSE NoHeaders

\* RequestHeaders with the two spreads in the other order
RequestHeaders_BaseWins(st, optHeaders) ==
  LET baseHeaders == Spread([k \in {"Content-Type"} |-> "application/json"],
                            authHeaders(st))
  IN Spread(optHeaders, baseHeaders)

\* const headers = { ...baseHeaders, ...(options.headers || {}) }
RequestHeaders(st, optHeaders) ==
  LET baseHeaders == Spread([k \in {"Content-Type"} |-> "application/json"],
                            authHeaders(st))
  IN Spread(baseHeaders, optHeaders)

\* what apiFetch hands to fetch()
Request(st, path, method, optHeaders, refresh_token) ==
  [path |-> path, method |-> method, headers |-> RequestHeaders(st, optHeaders),
   refresh_token |-> refresh_token]

NoRequest ==
  [path |-> "", method |-> "", headers |-> NoHeaders, refresh_token |-> Undef]

\* the headers a caller of apiFetch passes in options.headers
HeaderOptions ==
  {NoHeaders, [k \in {"Authorization"} |-> "Basic abc"],
   [k \in {"Content-Type"} |-> "text/plain"], [k \in {"X-Trace"} |-> "1"]}

(***************************************************************************)
(* Token persistence.                                                      *)
(***************************************************************************)
\* localStorage.setItem(key, value): the value is stored as a string
SetItem(st, key, value) == [st EXCEPT ![key] = Str(ToStr(value))]

\* storeTokens clearing the item whose field is missing
storeTokens_Clearing(st, tokenObj) ==
  IF ~TruthyD(tokenObj) THEN st
  ELSE [key \in DOMAIN st |->
          IF Truthy(Get(tokenObj, key)) THEN Str(ToStr(Get(tokenObj, key))) ELSE Null]

\* storeTokens keeping a refresh token that is already stored
storeTokens_FirstWins(st, tokenObj) ==
  IF ~TruthyD(tokenObj) THEN st
  ELSE LET a == Get(tokenObj, "access_token")
           r == Get(tokenObj, "refresh_token")
           st1 == IF Truthy(a) THEN [st EXCEPT !.access_token = Str(ToStr(a))] ELSE st
       IN IF Truthy(r) /\ ~Truthy(st.refresh_token)
            THEN [st1 EXCEPT !.refresh_token = Str(ToStr(r))]
          ELSE st1

storeTokens(st, tokenObj) ==
  IF ~TruthyD(tokenObj) THEN st
  ELSE LET a == Get(tokenObj, "access_token")
           r == Get(tokenObj, "refresh_token")
           st1 == IF Truthy(a) THEN SetItem(st, "access_token", a) ELSE st
       IN IF Truthy(r) THEN SetItem(st1, "refresh_token", r) ELSE st1

(***************************************************************************)
(* The state.                                                              *)
(*   storage   localStorage: the items access_token and refresh_token      *)
(*   form      the Login component's loading, error and message state      *)
(*   timers    pending setTimeout(() => navigate('/'), 800) callbacks      *)
(*   location  the current route                                           *)
(*   inflight  for each caller, the request fetch() has not settled yet    *)
(*   last      the last step taken: its inputs, the storage before it and  *)
(*             how the call settled                                        *)
(*   lastWrite the last step that wrote, or could have written, storage:   *)
(*             who it was and the token object it stored                   *)
(*   nsub      submissions of the form so far                              *)
(***************************************************************************)
LoginCallers == [op : {"login"}, i : 1..MaxSubmits]

RefreshCallers == [op : {"refreshToken"}, i : 1..MaxRefreshers]

ApiCaller == [op |-> "apiFetch", i |-> 1]

Callers == LoginCallers \cup RefreshCallers \cup {ApiCaller}

NoCaller == [op |-> "", i |-> 0]

\* the requests fetch() has not settled
Pending == {c \in Callers : inflight[c] # NoRequest}

\* what a step found: the stored items, the number of requests in flight, the
\* pending timers and the loading flag
Before ==
  [storage |-> storage, pending |-> Cardinality(Pending), timers |-> timers,
   loading |-> form.loading]

\* a step: the operation, its caller, the options.headers and token object it was
\* given, what fetch() settled with and how the call settled
Step(op, caller, opt, arg, res, out) ==
  [op |-> op, caller |-> caller, pre |-> Before, opt |-> opt, arg |-> arg,
   res |-> res, out |-> out]

EmptyStorage == [access_token |-> Null, refresh_token |-> Null]

\* localStorage outlives the page: a run starts with what an earlier one left
InitStorages ==
  {EmptyStorage, [access_token |-> Str("T0"), refresh_token |-> Str("R0")]}

Init ==
  /\ storage \in InitStorages
  /\ form = [loading |-> FALSE, error |-> "", message |-> ""]
  /\ timers = 0
  /\ location = "/login"
  /\ inflight = [c \in Callers |-> NoRequest]
  /\ last = [op |-> "", caller |-> NoCaller,
             pre |-> [storage |-> storage, pending |-> 0, timers |-> 0,
                      loading |-> FALSE],
             opt |-> NoHeaders, arg |-> UndefD, res |-> NoResponse, out |-> NoOutcome]
  /\ lastWrite = [by |-> "", data |-> UndefD]
  /\ nsub = 0

(***************************************************************************)
(* Actions.  JavaScript runs one handler at a time, so each action is one  *)
(* synchronous run: a call up to the point where fetch() has been called,  *)
(* or a settlement, which is everything from fetch() settling to the end   *)
(* of the caller's continuation.  The awaits in between (reading the body, *)
(* the promise of apiFetch resolving) neither read nor write storage or    *)
(* the form, so they are folded into the settlement.  A request stays in   *)
(* flight for as long as the model likes: there is no timeout.  The        *)
(* token_type of a token response is never read and is left out.           *)
(***************************************************************************)
(***************************************************************************)
(* The login form.                                                         *)
(***************************************************************************)
\* const details = err?.data?.detail
ErrDetails(err) == Get(err.data, "detail")

\* details.map(d => d?.msg).filter(Boolean).join(', ')
JoinDetails(details) ==
  LET msgs == [i \in 1..Len(details.items) |-> EntryMsg(details.items[i])]
      kept == SelectSeq(msgs, Truthy)
  IN JoinStr([i \in 1..Len(kept) |-> ToStr(kept[i])], ", ")

\* CatchMsg using the error's own message whenever it has one
CatchMsg_MessageFirst(err) ==
  IF err.message # "" THEN err.message
  ELSE IF Get(err.data, "detail").k = "arr"
    THEN JoinStr([i \in 1..Len(Get(err.data, "detail").items) |->
                    ToStr(EntryMsg(Get(err.data, "detail").items[i]))], ", ")
  ELSE "Login failed"

\* the message the catch block of onSubmit displays
CatchMsg(err) ==
  LET details == ErrDetails(err)
  IN IF details.k = "arr" THEN JoinDetails(details)
     ELSE IF err.message # "" THEN err.message ELSE "Login failed"

\* HasToken looking at the access token alone
HasToken_AccessOnly(res) == TruthyD(res) /\ Truthy(Get(res, "access_token"))

\* res && (res.access_token || res.refresh_token)
HasToken(res) ==
  TruthyD(res) /\ Truthy(Or(Get(res, "access_token"), Get(res, "refresh_token")))

\* StartLoading without the setLoading(true)
StartLoading_NoFlag(f) == [f EXCEPT !.error = "", !.message = ""]

\* setLoading(true) at the start of onSubmit
StartLoading(f) == [f EXCEPT !.error = "", !.message = "", !.loading = TRUE]

\* onSubmit up to its await: the button is disabled while loading
Submit ==
  /\ location = "/login"
  /\ ~form.loading
  /\ nsub < MaxSubmits
  /\ LET c == [op |-> "login", i |-> nsub + 1]
         req == Request(storage, "/auth/login", "POST", NoHeaders, Undef)
     IN /\ form' = StartLoading(form)
        /\ inflight' = [inflight EXCEPT ![c] = req]
        /\ last' = Step("onSubmit", c, NoHeaders, UndefD, NoResponse, NoOutcome)
  /\ nsub' = nsub + 1
  /\ UNCHANGED <<storage, timers, location, lastWrite>>

\* onSubmit after its await: the try, catch and finally blocks
LoginSettle(c, r) ==
  /\ inflight[c] # NoRequest
  /\ LET out == ApiFetchSettle(r)
         ok == out.kind = "resolved" /\ HasToken(out.data)
     IN /\ storage' = IF ok THEN storeTokens(storage, out.data) ELSE storage
        /\ timers' = IF ok THEN timers + 1 ELSE timers
        /\ form' =
             [loading |-> FALSE,
              message |-> IF ok THEN "Login successful! Redirecting..."
                          ELSE form.message,
              error |-> IF ok THEN form.error
                        ELSE IF out.kind = "resolved"
                          THEN "Login succeeded but no token returned. Please verify API response."
                        ELSE CatchMsg(out.err)]
        /\ last' = Step("loginSettle", c, NoHeaders, UndefD, r, out)
        /\ lastWrite' = IF ok THEN [by |-> "login", data |-> out.data] ELSE lastWrite
  /\ inflight' = [inflight EXCEPT ![c] = NoRequest]
  /\ UNCHANGED <<location, nsub>>

\* the callback of setTimeout(() => navigate('/'), 800)
NavigateTimer ==
  /\ timers > 0
  /\ timers' = timers - 1
  /\ location' = "/"
  /\ last' = Step("navigate", NoCaller, NoHeaders, UndefD, NoResponse, NoOutcome)
  /\ UNCHANGED <<storage, form, inflight, lastWrite, nsub>>

(***************************************************************************)
(* refreshToken, me and other callers of apiFetch.                         *)
(***************************************************************************)
\* RefreshCall without the check of the stored refresh token
RefreshCall_NoCheck(c) ==
  /\ inflight[c] = NoRequest
  /\ inflight' =
       [inflight EXCEPT
          ![c] = Request(storage, "/auth/refresh", "POST", NoHeaders,
                         storage.refresh_token)]
  /\ last' = Step("refreshToken", c, NoHeaders, UndefD, NoResponse, NoOutcome)
  /\ UNCHANGED <<storage, form, timers, location, lastWrite, nsub>>

\* refreshToken up to its await
RefreshCall(c) ==
  /\ inflight[c] = NoRequest
  /\ LET refresh_token == storage.refresh_token
     IN IF ~Truthy(refresh_token)
          THEN /\ inflight' = inflight
               /\ last' = Step("refreshToken", c, NoHeaders, UndefD, NoResponse,
                               Rejected(Err("Error", "No refresh token found",
                                            Undef, UndefD)))
          ELSE /\ inflight' =
                    [inflight EXCEPT
                       ![c] = Request(storage, "/auth/refresh", "POST", NoHeaders,
                                      refresh_token)]
               /\ last' = Step("refreshToken", c, NoHeaders, UndefD, NoResponse,
                               NoOutcome)
  /\ UNCHANGED <<storage, form, timers, location, lastWrite, nsub>>

\* refreshToken after its await: storeTokens(data); return data
RefreshSettle(c, r) ==
  /\ inflight[c] # NoRequest
  /\ LET out == ApiFetchSettle(r)
     IN /\ storage' = IF out.kind = "resolved" THEN storeTokens(storage, out.data)
                      ELSE storage
        /\ lastWrite' = IF out.kind = "resolved"
                          THEN [by |-> "refreshToken", data |-> out.data]
                        ELSE lastWrite
        /\ last' = Step("refreshSettle", c, NoHeaders, UndefD, r, out)
  /\ inflight' = [inflight EXCEPT ![c] = NoRequest]
  /\ UNCHANGED <<form, timers, location, nsub>>

\* apiFetch('/auth/me', { method: 'GET', headers: h }); with no headers this is me()
ApiFetchCall(h) ==
  /\ inflight[ApiCaller] = NoRequest
  /\ inflight' = [inflight EXCEPT
                    ![ApiCaller] = Request(storage, "/auth/me", "GET", h, Undef)]
  /\ last' = Step("apiFetch", ApiCaller, h, UndefD, NoResponse, NoOutcome)
  /\ UNCHANGED <<storage, form, timers, location, lastWrite, nsub>>

\* the promise of that call settles; the caller only receives the result
ApiSettle(r) ==
  /\ inflight[ApiCaller] # NoRequest
  /\ last' = Step("apiSettle", ApiCaller, NoHeaders, UndefD, r, ApiFetchSettle(r))
  /\ inflight' = [inflight EXCEPT ![ApiCaller] = NoRequest]
  /\ UNCHANGED <<storage, form, timers, location, lastWrite, nsub>>

\* storeTokens(tokenObj) called directly: it is exported
StoreTokensCall(tokenObj) ==
  /\ storage' = storeTokens(storage, tokenObj)
  /\ last' = Step("storeTokens", NoCaller, NoHeaders, tokenObj, NoResponse,
                  NoOutcome)
  /\ lastWrite' = [by |-> "storeTokens", data |-> tokenObj]
  /\ UNCHANGED <<form, timers, location, inflight, nsub>>

\* the values another tab may leave in an item (null: the item is removed)
OutsideValues == {Null, Str(""), Str("X1")}

StorageKeys == {"access_token", "refresh_token"}

\* another tab writes or removes an item of the shared localStorage
OutsideWrite(key, v) ==
  /\ storage' = [storage EXCEPT ![key] = v]
  /\ last' = Step("outside", NoCaller, NoHeaders, UndefD, NoResponse, NoOutcome)
  /\ lastWrite' = [by |-> "outside", data |-> UndefD]
  /\ UNCHANGED <<form, timers, location, inflight, nsub>>

(***************************************************************************)
(* Specifications.                                                         *)
(***************************************************************************)
\* everything fetch() may settle with
Settlements == Responses \cup {NetworkFailure}

\* the token objects storeTokens is called with
TokenObjects ==
  {UndefD, NullD, StrD("ok")}
    \cup {Obj(Undef, Undef, Undef, a, r) :
            a \in AccessValues \cup {Num(7)}, r \in RefreshValues \cup {Null}}

\* apiFetch alone: every settlement, every header option
NextFetch ==
  \/ \E h \in HeaderOptions : ApiFetchCall(h)
  \/ \E r \in Settlements : ApiSettle(r)

SpecFetch == Init /\ [][NextFetch]_vars

\* storeTokens alone
NextStore ==
  \/ \E t \in TokenObjects : StoreTokensCall(t)
  \/ \E key \in StorageKeys, v \in OutsideValues : OutsideWrite(key, v)

SpecStore == Init /\ [][NextStore]_vars

\* the login form
NextLogin ==
  \/ Submit
  \/ \E c \in LoginCallers, r \in Settlements : LoginSettle(c, r)
  \/ NavigateTimer

SpecLogin == Init /\ [][NextLogin]_vars

JsonResponse(status, d) ==
  [kind |-> "response", status |-> status, ctype |-> Str("application/json"),
   body |-> Serialize(d)]

TokenBody(a, r) == Obj(Undef, Undef, Undef, a, r)

TextResponse(status, text) ==
  [kind |-> "response", status |-> status, ctype |-> Str("text/plain"), body |-> text]

\* what the refresh endpoint may settle with
RefreshSettlements ==
  {JsonResponse(200, TokenBody(Str("T1"), Str("R1"))),
   JsonResponse(200, TokenBody(Str("T2"), Str("R2"))),
   JsonResponse(200, TokenBody(Str("T1"), Undef)),
   JsonResponse(200, TokenBody(Undef, Str("R1"))),
   JsonResponse(200, TokenBody(Str(""), Str("R2"))),
   JsonResponse(200, TokenBody(Undef, Undef)),
   JsonResponse(200, NullD),
   TextResponse(200, ""),
   [kind |-> "response", status |-> 200, ctype |-> Str("application/json"), body |-> ""],
   JsonResponse(401, TokenBody(Str("T2"), Str("R2"))),
   JsonResponse(401, Obj(Str("E1"), Undef, Undef, Undef, Undef)),
   NetworkFailure}

\* concurrent refreshToken() calls over the shared storage
NextRefresh ==
  \/ \E c \in RefreshCallers : RefreshCall(c)
  \/ \E c \in RefreshCallers, r \in RefreshSettlements : RefreshSettle(c, r)
  \/ \E key \in StorageKeys, v \in {Null, Str("")} : OutsideWrite(key, v)

SpecRefresh == Init /\ [][NextRefresh]_vars

\* a few settlements for the whole client running together
TokenSettlements ==
  {JsonResponse(200, TokenBody(Str("T1"), Str("R1"))),
   JsonResponse(200, TokenBody(Str("T2"), Undef)),
   JsonResponse(401, Obj(Str("E1"), Undef, Undef, Undef, Undef))}

\* the whole client: the form, a refresh, another call and another tab
Next ==
  \/ Submit
  \/ \E c \in LoginCallers, r \in TokenSettlements : LoginSettle(c, r)
  \/ NavigateTimer
  \/ RefreshCall([op |-> "refreshToken", i |-> 1])
  \/ \E r \in TokenSettlements : RefreshSettle([op |-> "refreshToken", i |-> 1], r)
  \/ \E h \in {h \in HeaderOptions : DOMAIN h \subseteq {"Authorization"}} :
        ApiFetchCall(h)
  \/ \E r \in TokenSettlements : ApiSettle(r)
  \/ \E key \in StorageKeys, v \in {Null, Str("X1")} : OutsideWrite(key, v)

Spec == Init /\ [][Next]_vars

(***************************************************************************)
(* Properties of apiFetch, under SpecFetch.                                *)
(***************************************************************************)
\* apiFetch has just settled on a response with a non-success status
FailureSettled ==
  last.op = "apiSettle" /\ last.res.kind = "response" /\ ~ResOk(last.res)

\* apiFetch has just settled on a response with a success status
SuccessSettled ==
  last.op = "apiSettle" /\ last.res.kind = "response" /\ ResOk(last.res)

\* the message as the claim words it: data.error if the property is there, else
\* data.message if that one is there, else the generic text
MessageIfPresent(d, status) ==
  IF Get(d, "error").k # "undef" THEN Get(d, "error")
  ELSE IF Get(d, "message").k # "undef" THEN Get(d, "message")
  ELSE Str("Request failed with " \o IntToStr(status))

\* the message with falsy properties skipped, as a string
MessageIfTruthy(d, status) ==
  IF Truthy(Get(d, "error")) THEN ToStr(Get(d, "error"))
  ELSE IF Truthy(Get(d, "message")) THEN ToStr(Get(d, "message"))
  ELSE "Request failed with " \o IntToStr(status)

\* C1 as claimed: for every response with a non-success status and every parsed
\* body, apiFetch raises an error whose status is the HTTP status, whose data is
\* the parsed body and whose message is data.error if present (even when empty
\* or falsy), else data.message if present, else "Request failed with <status>".
C1_AsClaimed ==
  (FailureSettled /\ ReadBody(last.res).ok) =>
    /\ last.out.kind = "rejected"
    /\ last.out.err.status = Num(last.res.status)
    /\ last.out.err.data = ReadBody(last.res).v
    /\ Str(last.out.err.message) = MessageIfPresent(last.out.err.data, last.res.status)

\* C1 amended: for every response with a non-success status apiFetch raises an
\* error.  When the body was read, its status is the HTTP status, its data is
\* the parsed body and its message is the string form of data.error if that is
\* truthy, else of data.message if that is truthy, else "Request failed with
\* <status>".  When the content type says JSON and the body is not valid JSON,
\* the error is the parse error, which has neither status nor data.
C1_Amended ==
  FailureSettled =>
    /\ last.out.kind = "rejected"
    /\ IF ReadBody(last.res).ok
         THEN /\ last.out.err.status = Num(last.res.status)
              /\ last.out.err.data = ReadBody(last.res).v
              /\ last.out.err.message =
                   MessageIfTruthy(last.out.err.data, last.res.status)
         ELSE /\ last.out.err.name = "SyntaxError"
              /\ last.out.err.status = Undef
              /\ last.out.err.data = UndefD

\* a 422 whose body has an empty error and a message: the message is used
C1_Witness ==
  /\ FailureSettled
  /\ last.res.status = 422
  /\ Get(last.out.err.data, "error") = Str("")
  /\ Get(last.out.err.data, "message") = Str("M1")
  /\ last.out.err.message = "M1"

\* C2 as claimed: for every response with a success status apiFetch raises no
\* error and returns the parsed body, also when the content type says JSON and
\* the body is empty or not valid JSON.
C2_AsClaimed ==
  SuccessSettled => last.out.kind = "resolved"

(***************************************************************************)
(* Properties of storeTokens, under SpecStore.                             *)
(***************************************************************************)
\* C3: storeTokens never removes or clears an item and writes an item only when
\* its field is present in the argument: storeTokens(undefined) writes nothing,
\* and with only one of the two fields the other item stays as it was.
C3_Theorem ==
  last.op = "storeTokens" =>
    /\ \A key \in StorageKeys :
         /\ storage[key] # last.pre.storage[key] =>
              (Get(last.arg, key).k # "undef" /\ Truthy(storage[key]))
         /\ last.pre.storage[key] # Null => storage[key] # Null
    /\ last.arg = UndefD => storage = last.pre.storage
    /\ Get(last.arg, "refresh_token").k = "undef" =>
         storage.refresh_token = last.pre.storage.refresh_token
    /\ Get(last.arg, "access_token").k = "undef" =>
         storage.access_token = last.pre.storage.access_token

\* storeTokens({access_token: "T1"}) over a stored refresh token R0
C3_Witness ==
  /\ last.op = "storeTokens"
  /\ last.arg = TokenBody(Str("T1"), Undef)
  /\ last.pre.storage = [access_token |-> Null, refresh_token |-> Str("R0")]
  /\ storage = [access_token |-> Str("T1"), refresh_token |-> Str("R0")]

(***************************************************************************)
(* Properties of refreshToken, under SpecRefresh.                          *)
(***************************************************************************)
\* the items after storing a token object: each non-empty token replaces its
\* item, every other item stays
Stored(before, data) ==
  [key \in StorageKeys |->
     IF Truthy(Get(data, key)) THEN Str(ToStr(Get(data, key))) ELSE before[key]]

\* C4: without a stored refresh token refreshToken() raises before any request
\* is issued and leaves the stored tokens as they are; with one it issues exactly
\* one POST to /auth/refresh carrying that token, and only when that request
\* succeeds does it store the returned tokens and return them; a failed request
\* leaves storage unchanged.
C4_Theorem ==
  /\ (last.op = "refreshToken" /\ ~Truthy(last.pre.storage.refresh_token)) =>
       /\ last.out.kind = "rejected"
       /\ last.out.err.message = "No refresh token found"
       /\ Cardinality(Pending) = last.pre.pending
       /\ inflight[last.caller] = NoRequest
       /\ storage = last.pre.storage
  /\ (last.op = "refreshToken" /\ Truthy(last.pre.storage.refresh_token)) =>
       /\ last.out.kind = "none"
       /\ Cardinality(Pending) = last.pre.pending + 1
       /\ inflight[last.caller].path = "/auth/refresh"
       /\ inflight[last.caller].method = "POST"
       /\ inflight[last.caller].refresh_token = last.pre.storage.refresh_token
       /\ storage = last.pre.storage
  /\ last.op = "refreshSettle" =>
       /\ Cardinality(Pending) = last.pre.pending - 1
       /\ inflight[last.caller] = NoRequest
       /\ storage # last.pre.storage =>
            (last.res.kind = "response" /\ ResOk(last.res)
               /\ last.out.kind = "resolved")
       /\ last.out.kind = "resolved" =>
            /\ last.out.data = ReadBody(last.res).v
            /\ storage = Stored(last.pre.storage, last.out.data)

\* a refresh stored T1, another tab removed the refresh token, and the next
\* refreshToken() raised with nothing sent
C4_Witness ==
  /\ last.op = "refreshToken"
  /\ last.out.kind = "rejected"
  /\ storage = [access_token |-> Str("T1"), refresh_token |-> Null]
  /\ Pending = {}

\* C8: concurrent refreshToken() calls are not coordinated and the last response
\* processed wins: whenever the token object stored last came from a refresh
\* response that carries both tokens, both stored items are that response's.
C8_Theorem ==
  (/\ lastWrite.by = "refreshToken"
   /\ Truthy(Get(lastWrite.data, "access_token"))
   /\ Truthy(Get(lastWrite.data, "refresh_token"))) =>
    /\ storage.access_token = Str(ToStr(Get(lastWrite.data, "access_token")))
    /\ storage.refresh_token = Str(ToStr(Get(lastWrite.data, "refresh_token")))

\* two calls read the same stored refresh token R0 and were in flight at once:
\* one has been processed and its tokens stored, the other is still in flight
C8_Witness ==
  \E c1, c2 \in RefreshCallers :
    /\ c1 # c2
    /\ last.op = "refreshSettle"
    /\ last.caller = c1
    /\ last.out.kind = "resolved"
    /\ last.pre.storage.refresh_token = Str("R0")
    /\ inflight[c2].refresh_token = Str("R0")
    /\ storage = [access_token |-> Str("T1"), refresh_token |-> Str("R1")]

(***************************************************************************)
(* Properties of the request headers, under Spec.                          *)
(***************************************************************************)
\* the last step issued a request
Issued ==
  \/ last.op \in {"onSubmit", "apiFetch"}
  \/ last.op = "refreshToken" /\ last.out.kind = "none"

\* C9: every request carries Authorization: Bearer <token> with the access token
\* stored when the request is issued, if and only if one is stored and the
\* caller supplied no Authorization header, which otherwise wins.
C9_Theorem ==
  Issued =>
    LET h == inflight[last.caller].headers
        tok == last.pre.storage.access_token
    IN IF "Authorization" \in DOMAIN last.opt
         THEN h["Authorization"] = last.opt["Authorization"]
       ELSE IF tok.k = "str" /\ tok.s # ""
         THEN "Authorization" \in DOMAIN h /\ h["Authorization"] = "Bearer " \o tok.s
       ELSE "Authorization" \notin DOMAIN h

\* a refresh replaced the access token by T2 and the next request carries T2
C9_Witness ==
  /\ last.op = "apiFetch"
  /\ last.opt = NoHeaders
  /\ lastWrite.by = "refreshToken"
  /\ last.pre.storage.access_token = Str("T2")
  /\ inflight[ApiCaller].headers["Authorization"] = "Bearer T2"

(***************************************************************************)
(* Properties of the login form, under SpecLogin.                          *)
(***************************************************************************)
SuccessText == "Login successful! Redirecting..."

NoTokenText == "Login succeeded but no token returned. Please verify API response."

\* the login calls fetch() has not settled
PendingLogins == {c \in LoginCallers : inflight[c] # NoRequest}

\* C5: when the login call resolves, the form stores the tokens, shows the
\* success message and schedules the navigation to "/" if and only if the
\* response holds an access token or a refresh token (a non-empty one);
\* otherwise it shows "Login succeeded but no token returned...", writes
\* nothing to storage and schedules no navigation.
C5_Theorem ==
  (last.op = "loginSettle" /\ last.out.kind = "resolved") =>
    IF \/ Truthy(Get(last.out.data, "access_token"))
       \/ Truthy(Get(last.out.data, "refresh_token"))
      THEN /\ storage = Stored(last.pre.storage, last.out.data)
           /\ form.message = SuccessText
           /\ form.error = ""
           /\ timers = last.pre.timers + 1
      ELSE /\ storage = last.pre.storage
           /\ form.error = NoTokenText
           /\ form.message = ""
           /\ timers = last.pre.timers

\* the login answered {access_token: "T1", refresh_token: "R1"}: both are stored,
\* the success message shows and one navigation is scheduled
C5_Witness ==
  /\ last.op = "loginSettle"
  /\ last.res.status = 200
  /\ last.out.data = TokenBody(Str("T1"), Str("R1"))
  /\ last.pre.storage = EmptyStorage
  /\ storage = [access_token |-> Str("T1"), refresh_token |-> Str("R1")]
  /\ form.message = SuccessText
  /\ timers = 1

RECURSIVE JoinedMsgs(_)
\* the msg strings of a detail list, those that are there, separated by ", "
JoinedMsgs(items) ==
  IF items = <<>> THEN ""
  ELSE LET m == EntryMsg(Head(items))
           rest == JoinedMsgs(Tail(items))
       IN IF ~(m.k = "str" /\ m.s # "") THEN rest
          ELSE IF rest = "" THEN m.s
          ELSE m.s \o ", " \o rest

\* C6: when the login call raises, the form displays the msg strings of
\* err.data.detail joined together if that is a list, otherwise the error's own
\* message, otherwise "Login failed"; a 422 with body {detail: [{msg: m}]}
\* displays exactly m.
C6_Theorem ==
  (last.op = "loginSettle" /\ last.out.kind = "rejected") =>
    LET err == last.out.err
        detail == Get(err.data, "detail")
    IN /\ form.error =
            IF detail.k = "arr" THEN JoinedMsgs(detail.items)
            ELSE IF err.message # "" THEN err.message
            ELSE "Login failed"
       /\ \A m \in {"m1", "m2"} :
            (last.res.status = 422 /\ detail = Arr(<<EntryObj(Str(m))>>)) =>
              form.error = m
       /\ form.message = ""

\* a 422 with body {detail: [{msg: "m1"}]} displays m1
C6_Witness ==
  /\ last.op = "loginSettle"
  /\ last.res.status = 422
  /\ last.res.body = "{\"detail\":[{\"msg\":\"m1\"}]}"
  /\ last.out.kind = "rejected"
  /\ form.error = "m1"

\* C7: the loading flag is set when a submission starts, stays set while the
\* login call is pending, so that no second submission starts before the first
\* completes, and is cleared when the call completes, whatever the outcome.
C7_Theorem ==
  /\ PendingLogins # {} => form.loading
  /\ Cardinality(PendingLogins) <= 1
  /\ last.op = "onSubmit" =>
       (form.loading /\ ~last.pre.loading /\ last.pre.pending = 0)
  /\ last.op = "loginSettle" => (~form.loading /\ last.pre.loading)

\* the second submission of a run has completed with an error: the flag is clear
C7_Witness ==
  /\ last.op = "loginSettle"
  /\ last.out.kind = "rejected"
  /\ nsub = 2
  /\ ~form.loading
  /\ PendingLogins = {}

\* C10 as claimed: after every login submission whose call completed exactly
\* one of the form's error and success messages is non-empty, for every error
\* shape, also when data.detail is an empty list or holds no msg.
C10_AsClaimed ==
  last.op = "loginSettle" => ((form.error # "") # (form.message # ""))

====
